---- MODULE Spec2Model ----
(***************************************************************************)
(* Model of weather_agent_cli.py: the interactive loop run_weather_agent   *)
(* and the helpers it calls.  Text is modelled as TLA+ strings, handled    *)
(* character by character (Len, SubSeq, \o), so that strip(), lower(),     *)
(* startswith() and json.loads() are computed and not assumed.             *)
(***************************************************************************)
EXTENDS Integers, Sequences, FiniteSets

(***************************************************************************)
(* Python str primitives                                                   *)
(***************************************************************************)

\* s[i-1:i] of Python (1-based here); "" past either end.
Ch(s, i) == IF i >= 1 /\ i <= Len(s) THEN SubSeq(s, i, i) ELSE ""

\* s[i-1:] of Python.
From(s, i) == IF i > Len(s) THEN "" ELSE SubSeq(s, i, Len(s))

\* s[i-1:i-1+n] of Python: at most n characters from index i.
Slice(s, i, n) ==
    IF i > Len(s) THEN ""
    ELSE SubSeq(s, i, IF i + n - 1 > Len(s) THEN Len(s) ELSE i + n - 1)

\* The characters str.strip() removes, restricted to the ones the inputs use.
PyWhitespace == {" ", "\t", "\n", "\r", "\f"}

RECURSIVE LStripFrom(_, _)
LStripFrom(s, i) ==
    IF i <= Len(s) /\ Ch(s, i) \in PyWhitespace THEN LStripFrom(s, i + 1) ELSE i

RECURSIVE RStripFrom(_, _)
RStripFrom(s, j) ==
    IF j >= 1 /\ Ch(s, j) \in PyWhitespace THEN RStripFrom(s, j - 1) ELSE j

\* Faulty variant of Strip: nothing is trimmed.
Strip_identity(s) == s

\* str.strip()
Strip(s) ==
    LET i == LStripFrom(s, 1)
        j == RStripFrom(s, Len(s))
    IN  IF i > j THEN "" ELSE SubSeq(s, i, j)

UpperLetters == "ABCDEFGHIJKLMNOPQRSTUVWXYZ"
LowerLetters == "abcdefghijklmnopqrstuvwxyz"

LowerCh(c) ==
    IF \E k \in 1..26 : Ch(UpperLetters, k) = c
    THEN Ch(LowerLetters, CHOOSE k \in 1..26 : Ch(UpperLetters, k) = c)
    ELSE c

\* Faulty variant of Lower: letter case is kept.
Lower_keepcase(s) == s

\* str.lower() on ASCII text
RECURSIVE Lower(_)
Lower(s) == IF Len(s) = 0 THEN "" ELSE LowerCh(Ch(s, 1)) \o Lower(From(s, 2))

\* Faulty variant of StartsWith: the prefix may occur anywhere in the text.
StartsWith_anywhere(s, p) ==
    \E i \in 1..(Len(s) - Len(p) + 1) : SubSeq(s, i, i + Len(p) - 1) = p

\* str.startswith()
StartsWith(s, p) == Len(s) >= Len(p) /\ SubSeq(s, 1, Len(p)) = p

DigitChars == "0123456789"
IsDigit(c) == \E k \in 1..10 : Ch(DigitChars, k) = c

\* str(n) for a natural number n
RECURSIVE NatStr(_)
NatStr(n) ==
    IF n < 10 THEN Ch(DigitChars, n + 1)
    ELSE NatStr(n \div 10) \o Ch(DigitChars, (n % 10) + 1)

(***************************************************************************)
(* Python values as json.loads produces them: a tag and a payload.         *)
(***************************************************************************)
PyStr(s)   == [t |-> "str",   v |-> s]
PyInt(s)   == [t |-> "int",   v |-> s]
PyFloat(s) == [t |-> "float", v |-> s]
PyBool(s)  == [t |-> "bool",  v |-> s]
PyNone     == [t |-> "None",  v |-> "None"]
PyList(q)  == [t |-> "list",  v |-> q]
PyDict(q)  == [t |-> "dict",  v |-> q]

Ok(val, pos)   == [ok |-> TRUE,  val |-> val, pos |-> pos, msg |-> ""]
Bad(msg, pos)  == [ok |-> FALSE, val |-> PyNone, pos |-> pos, msg |-> msg]

\* json.decoder.WHITESPACE.match(s, i).end()
RECURSIVE SkipWs(_, _)
SkipWs(s, i) == IF Ch(s, i) \in {" ", "\t", "\n", "\r"} THEN SkipWs(s, i + 1) ELSE i

RECURSIVE SkipDigits(_, _)
SkipDigits(s, i) == IF IsDigit(Ch(s, i)) THEN SkipDigits(s, i + 1) ELSE i

ControlChars == {"\t", "\n", "\r", "\f"}
SimpleEscapes == {"\"", "\\", "/", "f", "n", "r", "t"}
Unescape(c) ==
    CASE c = "n" -> "\n" [] c = "r" -> "\r" [] c = "t" -> "\t" [] c = "f" -> "\f"
      [] OTHER -> c

\* json.decoder.py_scanstring: i is the index after the opening quote.
\* The escapes \b and \uXXXX are outside the alphabet of the inputs and are
\* not decoded.
RECURSIVE ScanString(_, _, _, _)
ScanString(s, i, acc, begin) ==
    LET c == Ch(s, i) IN
    CASE c = ""   -> Bad("Unterminated string starting at", begin)
      [] c = "\"" -> Ok(PyStr(acc), i + 1)
      [] c \in ControlChars -> Bad("Invalid control character at", i)
      [] c = "\\" ->
            IF Ch(s, i + 1) = "" THEN Bad("Unterminated string starting at", begin)
            ELSE IF Ch(s, i + 1) \in SimpleEscapes
                 THEN ScanString(s, i + 2, acc \o Unescape(Ch(s, i + 1)), begin)
                 ELSE Bad("Invalid \\escape", i)
      [] OTHER -> ScanString(s, i + 1, acc \o c, begin)

\* json.scanner.NUMBER_RE: (-?(?:0|[1-9]\d*))(\.\d+)?([eE][-+]?\d+)?
\* The index after the longest match at i, or i when there is none.
NumberEnd(s, i) ==
    LET Exp(c, d)  == IF IsDigit(Ch(s, d)) THEN SkipDigits(s, d) ELSE c
        Frac(c)    == IF Ch(s, c) \in {"e", "E"}
                      THEN Exp(c, IF Ch(s, c + 1) \in {"-", "+"} THEN c + 2 ELSE c + 1)
                      ELSE c
        Whole(a, b) == IF b = a THEN i
                      ELSE Frac(IF Ch(s, b) = "." /\ IsDigit(Ch(s, b + 1))
                                THEN SkipDigits(s, b + 1) ELSE b)
        Sign(a)    == Whole(a, IF Ch(s, a) = "0" THEN a + 1 ELSE SkipDigits(s, a))
    IN  Sign(IF Ch(s, i) = "-" THEN i + 1 ELSE i)

\* The number s[i-1:e-1]: an int unless it has a fraction or an exponent.
Number(s, i, e) ==
    Ok(IF \A k \in i..(e - 1) : Ch(s, k) \notin {".", "e", "E"}
       THEN PyInt(SubSeq(s, i, e - 1)) ELSE PyFloat(SubSeq(s, i, e - 1)), e)

\* dict(pairs): a repeated key keeps its first place and takes the last value.
DictSet(pairs, key, val) ==
    IF \E k \in 1..Len(pairs) : pairs[k].k = key
    THEN [k \in 1..Len(pairs) |->
            IF pairs[k].k = key THEN [k |-> key, v |-> val] ELSE pairs[k]]
    ELSE Append(pairs, [k |-> key, v |-> val])

\* json.scanner.py_make_scanner._scan_once, json.decoder.JSONObject and
\* json.decoder.JSONArray.  lenient = TRUE is Python's decoder, which also
\* accepts NaN, Infinity and -Infinity; lenient = FALSE is the JSON grammar.
RECURSIVE ScanOnce(_, _, _)
RECURSIVE ScanMembers(_, _, _, _)
RECURSIVE ScanElements(_, _, _, _)

ScanOnce(s, i, lenient) ==
    LET Scan(c) ==
    CASE c = "\"" -> ScanString(s, i + 1, "", i)
      [] c = "{" ->
            LET Object(j) ==
                    IF Ch(s, j) = "}" THEN Ok(PyDict(<<>>), j + 1)
                    ELSE IF Ch(s, j) # "\""
                         THEN Bad("Expecting property name enclosed in double quotes", j)
                         ELSE ScanMembers(s, j + 1, <<>>, lenient)
            IN  Object(SkipWs(s, i + 1))
      [] c = "[" ->
            LET Array(j) ==
                    IF Ch(s, j) = "]" THEN Ok(PyList(<<>>), j + 1)
                    ELSE ScanElements(s, j, <<>>, lenient)
            IN  Array(SkipWs(s, i + 1))
      [] c = "n" /\ Slice(s, i, 4) = "null"   -> Ok(PyNone, i + 4)
      [] c = "t" /\ Slice(s, i, 4) = "true"   -> Ok(PyBool("True"), i + 4)
      [] c = "f" /\ Slice(s, i, 5) = "false"  -> Ok(PyBool("False"), i + 5)
      [] NumberEnd(s, i) > i -> Number(s, i, NumberEnd(s, i))
      [] lenient /\ c = "N" /\ Slice(s, i, 3) = "NaN" -> Ok(PyFloat("nan"), i + 3)
      [] lenient /\ c = "I" /\ Slice(s, i, 8) = "Infinity" -> Ok(PyFloat("inf"), i + 8)
      [] lenient /\ c = "-" /\ Slice(s, i, 9) = "-Infinity" -> Ok(PyFloat("-inf"), i + 9)
      [] OTHER -> Bad("Expecting value", i)
    IN  Scan(Ch(s, i))

\* i is the index after the opening quote of a key.
ScanMembers(s, i, pairs, lenient) ==
    LET After(more, e) ==
            IF Ch(s, e) = "}" THEN Ok(PyDict(more), e + 1)
            ELSE IF Ch(s, e) # "," THEN Bad("Expecting ',' delimiter", e)
            ELSE LET Key(q) ==
                         IF Ch(s, q) # "\""
                         THEN Bad("Expecting property name enclosed in double quotes", q)
                         ELSE ScanMembers(s, q + 1, more, lenient)
                 IN  Key(SkipWs(s, e + 1))
        Member(key, val) ==
            IF ~val.ok THEN val
            ELSE After(DictSet(pairs, key.val.v, val.val), SkipWs(s, val.pos))
        Colon(key, j) ==
            IF Ch(s, j) # ":" THEN Bad("Expecting ':' delimiter", j)
            ELSE Member(key, ScanOnce(s, SkipWs(s, j + 1), lenient))
        Key(key) == IF ~key.ok THEN key ELSE Colon(key, SkipWs(s, key.pos))
    IN  Key(ScanString(s, i, "", i - 1))

ScanElements(s, i, elems, lenient) ==
    LET After(more, e) ==
            IF Ch(s, e) = "]" THEN Ok(PyList(more), e + 1)
            ELSE IF Ch(s, e) # "," THEN Bad("Expecting ',' delimiter", e)
            ELSE ScanElements(s, SkipWs(s, e + 1), more, lenient)
        Element(val) ==
            IF ~val.ok THEN val
            ELSE After(Append(elems, val.val), SkipWs(s, val.pos))
    IN  Element(ScanOnce(s, i, lenient))

\* json.decoder.JSONDecoder.decode: one value, whitespace around it, no more.
Decode(s, lenient) ==
    LET End(r, e) == IF e # Len(s) + 1 THEN Bad("Extra data", e) ELSE r
        One(r)    == IF ~r.ok THEN r ELSE End(r, SkipWs(s, r.pos))
    IN  One(ScanOnce(s, SkipWs(s, 1), lenient))

\* json.loads(s); a failure is json.JSONDecodeError(msg, s, pos - 1).
JsonLoads(s) == Decode(s, TRUE)

\* Number of line feeds in s[0:pos-1], and the index of the last of them.
NewlinesBefore(s, pos) == Cardinality({k \in 1..(pos - 1) : Ch(s, k) = "\n"})
LastNewlineBefore(s, pos) ==
    IF NewlinesBefore(s, pos) = 0 THEN 0
    ELSE CHOOSE k \in 1..(pos - 1) :
            /\ Ch(s, k) = "\n"
            /\ \A m \in (k + 1)..(pos - 1) : Ch(s, m) # "\n"

\* str(json.JSONDecodeError(msg, s, pos - 1))
JSONDecodeErrorStr(e, s) ==
    e.msg \o ": line " \o NatStr(NewlinesBefore(s, e.pos) + 1)
          \o " column " \o NatStr(e.pos - LastNewlineBefore(s, e.pos))
          \o " (char " \o NatStr(e.pos - 1) \o ")"

(***************************************************************************)
(* Python operations on the decoded values                                 *)
(***************************************************************************)
Value(v)   == [exc |-> {}, val |-> v]
Raises(es) == [exc |-> es, val |-> PyNone]

HasKey(d, key) == \E k \in 1..Len(d.v) : d.v[k].k = key

Lookup(d, key) == d.v[CHOOSE k \in 1..Len(d.v) : d.v[k].k = key].v

\* val[key] for a str key: only a dict can be indexed by it; a missing key
\* raises KeyError, every other type raises TypeError.
GetItem(val, key) ==
    IF val.t = "dict"
    THEN IF HasKey(val, key) THEN Value(Lookup(val, key)) ELSE Raises({"KeyError"})
    ELSE Raises({"TypeError"})

\* str(KeyError(key))
KeyErrorStr(key) == "'" \o key \o "'"

\* val[:n].  A str and a list can be sliced.  A dict raises TypeError
\* (unhashable slice) up to Python 3.11 and KeyError from 3.12 on; the other
\* types raise TypeError.
SliceTo(val, n) ==
    CASE val.t = "str"  -> Value(PyStr(Slice(val.v, 1, n)))
      [] val.t = "list" ->
            Value(PyList(SubSeq(val.v, 1, IF Len(val.v) < n THEN Len(val.v) ELSE n)))
      [] val.t = "dict" -> Raises({"TypeError", "KeyError"})
      [] OTHER          -> Raises({"TypeError"})

\* repr(v).  The texts of the inputs hold no quote or backslash, and their
\* numbers are written the way repr writes them.
RECURSIVE PyRepr(_)
RECURSIVE PyReprItems(_, _)
PyRepr(val) ==
    CASE val.t = "str"  -> "'" \o val.v \o "'"
      [] val.t = "list" -> "[" \o PyReprItems(val, 1) \o "]"
      [] val.t = "dict" -> "{" \o PyReprItems(val, 1) \o "}"
      [] OTHER          -> val.v
PyReprItems(val, k) ==
    IF k > Len(val.v) THEN ""
    ELSE (IF val.t = "dict"
          THEN "'" \o val.v[k].k \o "': " \o PyRepr(val.v[k].v)
          ELSE PyRepr(val.v[k]))
         \o (IF k < Len(val.v) THEN ", " ELSE "")
         \o PyReprItems(val, k + 1)

\* format(v) in an f-string
Format(val) == IF val.t = "str" THEN val.v ELSE PyRepr(val)

\* type(v).__name__
TypeName(val) == IF val.t = "None" THEN "NoneType" ELSE val.t

\* c * n
RECURSIVE Repeat(_, _)
Repeat(c, n) == IF n = 0 THEN "" ELSE c \o Repeat(c, n - 1)

(***************************************************************************)
(* The helpers of weather_agent_cli.py.  The outcome of each external call *)
(* (bedrock.converse, subprocess.run) is a parameter o the caller chooses. *)
(***************************************************************************)
Result(ok, text) == [success |-> ok, response |-> text]

\* o = [raised |-> BOOLEAN, text |-> STRING]: converse either raises an
\* exception whose str() is o.text or answers with the text o.text.
call_claude_sonnet(o) ==
    IF o.raised THEN Result(FALSE, "Error calling Claude: " \o o.text)
    ELSE Result(TRUE, o.text)

\* url is a Python value.  subprocess.run raises TypeError, before it starts
\* the command, for an argument that is no str.  Otherwise o is what the
\* command did: [kind |-> "exit", returncode, stdout, stderr],
\* [kind |-> "timeout"] or [kind |-> "error", text].
execute_curl_command(url, o) ==
    IF url.t # "str"
    THEN Result(FALSE, "Error executing curl: expected str, bytes or os.PathLike object, not "
                         \o TypeName(url))
    ELSE CASE o.kind = "exit" ->
                IF o.returncode = 0 THEN Result(TRUE, o.stdout)
                ELSE Result(FALSE, "Curl command failed: " \o o.stderr)
           [] o.kind = "timeout" -> Result(FALSE, "Request timed out after 30 seconds")
           [] OTHER -> Result(FALSE, "Error executing curl: " \o o.text)

PointsPrefix == "https://api.weather.gov/points/"

\* Faulty variant of InvalidUrlMessage: the rejected text is left out.
InvalidUrlMessage_bare(api_url) == "AI generated invalid URL"

InvalidUrlMessage(api_url) == "AI generated invalid URL: " \o api_url

\* Returns success and api_calls: a list of one URL, or a message.
generate_weather_api_calls(location, o) ==
    LET r       == call_claude_sonnet(o)
        api_url == Strip(r.response)
    IN  IF r.success
        THEN IF StartsWith(api_url, PointsPrefix)
             THEN [success |-> TRUE,  api_calls |-> PyList(<<PyStr(api_url)>>)]
             ELSE [success |-> FALSE, api_calls |-> PyStr(InvalidUrlMessage(api_url))]
        ELSE [success |-> FALSE, api_calls |-> PyStr(r.response)]

\* The exceptions the except clause of get_forecast_url_from_points_response
\* names; json.loads raises only JSONDecodeError on a str.
CaughtByParser == {"JSONDecodeError", "KeyError"}

ParseError(text) == "Error parsing Points API response: " \o text

\* raised: the exception types that may leave the function ({} when it
\* returns); success and forecast_url: what it returns.
get_forecast_url_from_points_response(points_json) ==
    LET Return(ok, v) == [raised |-> {}, success |-> ok, forecast_url |-> v]
        Handle(es, text) ==
            IF es \subseteq CaughtByParser
            THEN Return(FALSE, PyStr(ParseError(text)))
            ELSE [raised |-> es, success |-> FALSE, forecast_url |-> PyNone]
        Forecast(fc) ==
            IF fc.exc # {} THEN Handle(fc.exc, KeyErrorStr("forecast"))
            ELSE Return(TRUE, fc.val)
        Properties(props) ==
            IF props.exc # {} THEN Handle(props.exc, KeyErrorStr("properties"))
            ELSE Forecast(GetItem(props.val, "forecast"))
        Loaded(data) ==
            IF ~data.ok
            THEN Handle({"JSONDecodeError"}, JSONDecodeErrorStr(data, points_json))
            ELSE Properties(GetItem(data.val, "properties"))
    IN  Loaded(JsonLoads(points_json))

\* Faulty variant of process_weather_response: the summary is trimmed.
process_weather_response_trimmed(raw_json, location, o) ==
    Result(call_claude_sonnet(o).success, Strip(call_claude_sonnet(o).response))

process_weather_response(raw_json, location, o) == call_claude_sonnet(o)

(***************************************************************************)
(* What the environment can do: lines typed at the prompt, answers of the  *)
(* model, results of the curl command.                                      *)
(***************************************************************************)
ConsoleLines == {"quit", "EXIT", " Q ", "Quit", "", "  ", "Seattle", " 98101 "}

SeattlePoints == PointsPrefix \o "47.6062,-122.3321"

Answer(text) == [raised |-> FALSE, text |-> text]
Failure(text) == [raised |-> TRUE, text |-> text]

PlannerOutcomes ==
    { Answer(SeattlePoints),
      Answer("\n" \o SeattlePoints \o " \n"),
      Answer(PointsPrefix \o "47.6,-122.3\nThat is Seattle, WA"),
      Answer("I think it's near Seattle"),
      Answer("I think it's near Seattle.\n"),
      Answer(" Try " \o PointsPrefix \o "47.6,-122.3 \n"),
      Failure("An error occurred (ThrottlingException)") }

SummaryOutcomes ==
    { Answer("\nSeattle: rain today, high 54F.\n"),
      Answer("Sunny through Friday."),
      Failure("An error occurred (ThrottlingException)") }

Exit(code, out, err) ==
    [kind |-> "exit", returncode |-> code, stdout |-> out, stderr |-> err, text |-> ""]
CurlFailures ==
    { Exit(6, "", ""),
      [kind |-> "timeout", returncode |-> 0, stdout |-> "", stderr |-> "", text |-> ""],
      [kind |-> "error", returncode |-> 0, stdout |-> "", stderr |-> "",
       text |-> "[Errno 2] No such file or directory: 'curl'"] }

ForecastSEW == "https://api.weather.gov/gridpoints/SEW/124,67/forecast"
ForecastOKX == "https://api.weather.gov/gridpoints/OKX/33,35/forecast"

PointsBodies ==
    { "{\"properties\": {\"forecast\": \"" \o ForecastSEW \o "\"}}",
      "{\"id\": 1,\n \"properties\": {\"forecast\": \"x\", \"forecast\": \""
          \o ForecastOKX \o "\"}}\n",
      "{\"status\": 404}",
      "{\"properties\": {\"gridId\": \"SEW\"}}",
      "{\"properties\": 5}",
      "{\"properties\": {\"forecast\": 5}}",
      "{\"properties\": {\"forecast\": null}}",
      "{\"properties\": {\"forecast\": [\"a\", 1]}}",
      "{\"properties\": {\"forecast\": {\"href\": \"a\"}}}",
      "{\"properties\": {\"forecast\": NaN}}",
      "[]",
      "null",
      "\"Service Unavailable\"",
      "NaN",
      "<html>503</html>",
      "{\"properties\": {\"forecast\": ",
      "" }

ForecastBodies ==
    { "{\"properties\": {\"periods\": [{\"name\": \"Today\", \"temperature\": 54}]}}",
      "<html>503</html>" }

PointsFetchOutcomes   == {Exit(0, b, "") : b \in PointsBodies} \cup CurlFailures
ForecastFetchOutcomes == {Exit(0, b, "") : b \in ForecastBodies} \cup CurlFailures

(***************************************************************************)
(* run_weather_agent                                                       *)
(***************************************************************************)
VARIABLES
    pc,                 \* the state of the loop, or how the function ended
    exc,                \* the exception that left run_weather_agent, or ""
    line,               \* the line input() returned last
    location, success, api_calls, points_url, points_response,
    forecast_url, forecast_response, summary,    \* the locals of the loop
    reply,              \* what call_claude_sonnet returned last: success, response
    stdout,             \* the print() calls since the last prompt
    calls               \* the external calls since the last prompt

locals == <<location, success, api_calls, points_url, points_response,
            forecast_url, forecast_response, summary>>
vars == <<pc, exc, line, locals, reply, stdout, calls>>

ExitCommands == {"quit", "exit", "q"}

\* The length of the slice of the forecast URL that is printed.
ForecastUrlShown == 60

\* location.lower() in ['quit', 'exit', 'q']
IsExitCommand(loc) == Lower(loc) \in ExitCommands

\* Faulty variant of OnResult: a failed step does not end the iteration.
OnResult_fallthrough(ok, cur, nxt) == nxt

\* Faulty variant of OnResult: a failed step is tried again.
OnResult_retry(ok, cur, nxt) == IF ok THEN nxt ELSE cur

\* "if not success: print(...); continue" after the step cur.
OnResult(ok, cur, nxt) == IF ok THEN nxt ELSE "AwaitInput"

ModelCall(by, args) == [fn |-> "call_claude_sonnet", by |-> by, args |-> args]
FetchCall(by, url)  == [fn |-> "execute_curl_command", by |-> by, args |-> <<url>>]

\* print(): each call adds one text to the output.
Emit(out, texts) == out \o texts

\* A local that is not bound yet is never read; it starts as an empty value.
Init ==
    /\ pc = "AwaitInput"
    /\ exc = ""
    /\ line = ""
    /\ location = ""
    /\ success = FALSE
    /\ api_calls = PyNone
    /\ points_url = ""
    /\ points_response = ""
    /\ forecast_url = PyNone
    /\ forecast_response = ""
    /\ summary = ""
    /\ reply = Result(FALSE, "")
    /\ stdout = << "Welcome to the Weather AI Agent!",
                   "This agent uses Claude 4.5 Sonnet to help you get weather forecasts.",
                   Repeat("=", 60) >>
    /\ calls = <<>>

\* input() at end of input raises EOFError, which nothing catches.
EndOfInput ==
    /\ pc = "AwaitInput"
    /\ pc' = "Raised"
    /\ exc' = "EOFError"
    /\ stdout' = <<>>
    /\ calls' = <<>>
    /\ UNCHANGED <<line, locals, reply>>

\* Lines 171-182: read a line, leave on an exit command, reject an empty one.
AwaitInput ==
    /\ pc = "AwaitInput"
    /\ \E typed \in ConsoleLines :
         LET loc == Strip(typed) IN
         /\ line' = typed
         /\ location' = loc
         /\ calls' = <<>>
         /\ IF IsExitCommand(loc)
            THEN /\ stdout' = <<"Thanks for using the Weather Agent!">>
                 /\ pc' = "Returned"
            ELSE IF loc = ""
            THEN /\ stdout' = <<"[ERROR] Please enter a location name or description.">>
                 /\ pc' = "AwaitInput"
            ELSE /\ stdout' = << "\nStarting weather analysis for '" \o loc \o "'...",
                                 Repeat("-", 40) >>
                 /\ pc' = "Plan"
    /\ UNCHANGED <<exc, success, api_calls, points_url, points_response,
                   forecast_url, forecast_response, summary, reply>>

\* Lines 184-192
Plan ==
    /\ pc = "Plan"
    /\ \E o \in PlannerOutcomes :
         LET r == generate_weather_api_calls(location, o) IN
         /\ reply' = call_claude_sonnet(o)
         /\ calls' = Append(calls, ModelCall("generate_weather_api_calls", <<location>>))
         /\ success' = r.success
         /\ api_calls' = r.api_calls
         /\ pc' = OnResult(r.success, "Plan", "FetchPoints")
         /\ IF ~r.success
            THEN /\ stdout' = Emit(stdout,
                        << "Step 1: AI Planning Phase",
                           "AI is analyzing '" \o location
                               \o "' and generating weather API calls...",
                           "[ERROR] Failed to generate API calls: " \o Format(r.api_calls) >>)
                 /\ UNCHANGED points_url
            ELSE /\ points_url' = r.api_calls.v[1].v
                 /\ stdout' = Emit(stdout,
                        << "Step 1: AI Planning Phase",
                           "AI is analyzing '" \o location
                               \o "' and generating weather API calls...",
                           "[SUCCESS] Generated Points API URL: " \o r.api_calls.v[1].v >>)
    /\ UNCHANGED <<exc, line, location, points_response, forecast_url,
                   forecast_response, summary>>

\* Lines 194-202
FetchPoints ==
    /\ pc = "FetchPoints"
    /\ \E o \in PointsFetchOutcomes :
         LET r == execute_curl_command(PyStr(points_url), o) IN
         /\ calls' = Append(calls, FetchCall("points", PyStr(points_url)))
         /\ success' = r.success
         /\ points_response' = r.response
         /\ pc' = OnResult(r.success, "FetchPoints", "ExtractForecastURL")
         /\ stdout' = Emit(stdout,
                << "\nStep 2: Points API Execution",
                   "Fetching location data from National Weather Service...",
                   IF r.success THEN "[SUCCESS] Received points data"
                   ELSE "[ERROR] Failed to fetch points data: " \o r.response >>)
    /\ UNCHANGED <<exc, line, location, api_calls, points_url, forecast_url,
                   forecast_response, summary, reply>>

\* Lines 204-211.  An exception that leaves the parser, or that the slice
\* forecast_url[:60] of line 211 raises, leaves run_weather_agent.
ExtractForecastURL ==
    /\ pc = "ExtractForecastURL"
    /\ LET step == "\nStep 3: Extracting Forecast URL"
           Step(r, head) ==
       IF r.raised # {}
       THEN /\ \E e \in r.raised : exc' = e
            /\ pc' = "Raised"
            /\ stdout' = Emit(stdout, <<step>>)
            /\ UNCHANGED <<success, forecast_url>>
       ELSE /\ success' = r.success
            /\ forecast_url' = r.forecast_url
            /\ IF ~r.success
               THEN /\ stdout' = Emit(stdout,
                          << step, "[ERROR] Failed to extract forecast URL: "
                                       \o Format(r.forecast_url) >>)
                    /\ pc' = OnResult(FALSE, "ExtractForecastURL", "FetchForecast")
                    /\ UNCHANGED exc
               ELSE IF head.exc # {}
               THEN /\ \E e \in head.exc : exc' = e
                    /\ pc' = "Raised"
                    /\ stdout' = Emit(stdout, <<step>>)
               ELSE /\ stdout' = Emit(stdout,
                          << step, "[SUCCESS] Forecast URL: " \o Format(head.val) \o "..." >>)
                    /\ pc' = OnResult(TRUE, "ExtractForecastURL", "FetchForecast")
                    /\ UNCHANGED exc
           Parsed(r) == Step(r, SliceTo(r.forecast_url, ForecastUrlShown))
       IN  Parsed(get_forecast_url_from_points_response(points_response))
    /\ UNCHANGED <<line, location, api_calls, points_url, points_response,
                   forecast_response, summary, reply, calls>>

\* Lines 213-221
FetchForecast ==
    /\ pc = "FetchForecast"
    /\ \E o \in ForecastFetchOutcomes :
         LET r == execute_curl_command(forecast_url, o) IN
         /\ calls' = Append(calls, FetchCall("forecast", forecast_url))
         /\ success' = r.success
         /\ forecast_response' = r.response
         /\ pc' = OnResult(r.success, "FetchForecast", "Summarize")
         /\ stdout' = Emit(stdout,
                << "\nStep 4: Forecast API Execution",
                   "Fetching weather forecast data...",
                   IF r.success
                   THEN "[SUCCESS] Received " \o NatStr(Len(r.response))
                            \o " characters of forecast data"
                   ELSE "[ERROR] Failed to fetch forecast data: " \o r.response >>)
    /\ UNCHANGED <<exc, line, location, api_calls, points_url, points_response,
                   forecast_url, summary, reply>>

\* Lines 223-228
Summarize ==
    /\ pc = "Summarize"
    /\ \E o \in SummaryOutcomes :
         LET r == process_weather_response(forecast_response, location, o) IN
         /\ reply' = call_claude_sonnet(o)
         /\ calls' = Append(calls, ModelCall("process_weather_response",
                                             <<forecast_response, location>>))
         /\ success' = r.success
         /\ summary' = r.response
         /\ pc' = OnResult(r.success, "Summarize", "Display")
         /\ stdout' = Emit(stdout,
                IF r.success
                THEN << "\nStep 5: AI Analysis Phase",
                        "AI is processing weather data and creating summary..." >>
                ELSE << "\nStep 5: AI Analysis Phase",
                        "AI is processing weather data and creating summary...",
                        "[ERROR] Failed to process data: " \o r.response >>)
    /\ UNCHANGED <<exc, line, location, api_calls, points_url, points_response,
                   forecast_url, forecast_response>>

\* Lines 230-235
Display ==
    /\ pc = "Display"
    /\ stdout' = Emit(stdout,
            << "\nStep 6: Weather Forecast",
               Repeat("=", 60),
               summary,
               Repeat("=", 60),
               "\n[SUCCESS] Weather analysis complete for '" \o location \o "'!" >>)
    /\ pc' = "AwaitInput"
    /\ UNCHANGED <<exc, line, locals, reply, calls>>

Next ==
    \/ EndOfInput
    \/ AwaitInput
    \/ Plan
    \/ FetchPoints
    \/ ExtractForecastURL
    \/ FetchForecast
    \/ Summarize
    \/ Display

Spec == Init /\ [][Next]_vars

(***************************************************************************)
(* Vocabulary of the properties.  It is stated on the text itself and does *)
(* not go through the operators that model the program.                    *)
(***************************************************************************)
Steps == {"Plan", "FetchPoints", "ExtractForecastURL", "FetchForecast", "Summarize"}

Last(q) == q[Len(q)]

IsErrorLine(text)  == Len(text) >= 7 /\ SubSeq(text, 1, 7) = "[ERROR]"
ErrorCount(out)    == Cardinality({k \in 1..Len(out) : IsErrorLine(out[k])})
SummaryHeader      == "\nStep 6: Weather Forecast"
SummaryShown(out)  == \E k \in 1..Len(out) : out[k] = SummaryHeader
ExtractHeader      == "\nStep 3: Extracting Forecast URL"
ExtractRan(out)    == \E k \in 1..Len(out) : out[k] = ExtractHeader

\* A line was read at the prompt in this step (input() did not raise).
LineRead == pc = "AwaitInput" /\ pc' # "Raised"

\* The step pc ran to its end in this step and returned success = false.
StepFailed == pc \in Steps /\ pc' # "Raised" /\ ~success'

\* The external calls an iteration has made when the step has ended.
CallsThrough(step) ==
    CASE step = "Plan" -> 1
      [] step = "FetchPoints" -> 2
      [] step = "ExtractForecastURL" -> 2
      [] step = "FetchForecast" -> 3
      [] step = "Summarize" -> 4
      [] OTHER -> 0

HasPointsPrefix(text) ==
    Len(text) >= 31 /\ SubSeq(text, 1, 31) = "https://api.weather.gov/points/"

MentionsPointsPrefix(text) ==
    \E i \in 1..(Len(text) - 30) :
        SubSeq(text, i, i + 30) = "https://api.weather.gov/points/"

\* A decimal number: an optional sign, digits, and at most one point with a
\* digit on both sides of it.
IsDecimal(x) ==
    LET first == IF Len(x) > 0 /\ SubSeq(x, 1, 1) = "-" THEN 2 ELSE 1 IN
    /\ first <= Len(x)
    /\ \A k \in first..Len(x) : SubSeq(x, k, k) \in
           {"0", "1", "2", "3", "4", "5", "6", "7", "8", "9", "."}
    /\ Cardinality({k \in first..Len(x) : SubSeq(x, k, k) = "."}) <= 1
    /\ SubSeq(x, first, first) # "."
    /\ SubSeq(x, Len(x), Len(x)) # "."

\* Exactly https://api.weather.gov/points/<lat>,<lon>
IsPointsUrl(text) ==
    /\ HasPointsPrefix(text)
    /\ \E k \in 32..Len(text) :
          /\ SubSeq(text, k, k) = ","
          /\ IsDecimal(SubSeq(text, 32, k - 1))
          /\ IsDecimal(SubSeq(text, k + 1, Len(text)))

IsBlank(text) ==
    \A k \in 1..Len(text) : SubSeq(text, k, k) \in {" ", "\t", "\n", "\r", "\f"}

\* The text without the blank characters at its two ends.
Trimmed(text) ==
    IF IsBlank(text) THEN ""
    ELSE SubSeq(text,
                CHOOSE i \in 1..Len(text) :
                    /\ ~IsBlank(SubSeq(text, i, i))
                    /\ IsBlank(SubSeq(text, 1, i - 1)),
                CHOOSE j \in 1..Len(text) :
                    /\ ~IsBlank(SubSeq(text, j, j))
                    /\ IsBlank(SubSeq(text, j + 1, Len(text))))

\* quit, exit or q in any letter case
IsExitWord(text) ==
    \/ /\ Len(text) = 4
       /\ SubSeq(text, 1, 1) \in {"q", "Q"} /\ SubSeq(text, 2, 2) \in {"u", "U"}
       /\ SubSeq(text, 3, 3) \in {"i", "I"} /\ SubSeq(text, 4, 4) \in {"t", "T"}
    \/ /\ Len(text) = 4
       /\ SubSeq(text, 1, 1) \in {"e", "E"} /\ SubSeq(text, 2, 2) \in {"x", "X"}
       /\ SubSeq(text, 3, 3) \in {"i", "I"} /\ SubSeq(text, 4, 4) \in {"t", "T"}
    \/ text \in {"q", "Q"}

\* The text is a JSON text by the JSON grammar (RFC 8259), which has no NaN
\* and no Infinity.
IsValidJSON(text) == Decode(text, FALSE).ok

\* The JSON text is an object whose member properties is an object that has
\* a member forecast.
HoldsForecast(text) ==
    LET doc == Decode(text, FALSE).val IN
    /\ doc.t = "dict"
    /\ \E k \in 1..Len(doc.v) :
          /\ doc.v[k].k = "properties"
          /\ doc.v[k].v.t = "dict"
          /\ \E m \in 1..Len(doc.v[k].v.v) : doc.v[k].v.v[m].k = "forecast"

\* The value of properties.forecast in such a text.
ForecastIn(text) ==
    LET doc   == Decode(text, FALSE).val
        props == doc.v[CHOOSE k \in 1..Len(doc.v) : doc.v[k].k = "properties"].v
    IN  props.v[CHOOSE m \in 1..Len(props.v) : props.v[m].k = "forecast"].v

\* The planner's model call is the last model call of the iteration so far,
\* so that reply is the planner's.
PlannerRan == Len(calls) >= 1 /\ Len(calls) < 4

\* The external calls of a full iteration, and the forward moves of the loop.
CallOrder ==
    << [fn |-> "call_claude_sonnet",   by |-> "generate_weather_api_calls"],
       [fn |-> "execute_curl_command", by |-> "points"],
       [fn |-> "execute_curl_command", by |-> "forecast"],
       [fn |-> "call_claude_sonnet",   by |-> "process_weather_response"] >>

Forward ==
    { <<"AwaitInput", "Plan">>, <<"Plan", "FetchPoints">>,
      <<"FetchPoints", "ExtractForecastURL">>,
      <<"ExtractForecastURL", "FetchForecast">>,
      <<"FetchForecast", "Summarize">>, <<"Summarize", "Display">>,
      <<"Display", "AwaitInput">> }

(***************************************************************************)
(* C1  A step that returns success = false prints exactly one [ERROR]      *)
(* line, the last line of the iteration, and the loop is back at the       *)
(* prompt: no summary is shown and the iteration has made no call beyond   *)
(* the failed step's own; after a failed points fetch the forecast fetch   *)
(* and the summary call are not among the iteration's calls.               *)
(***************************************************************************)
C1_FailedStepEndsIteration ==
    [][ StepFailed =>
          /\ pc' = "AwaitInput"
          /\ ErrorCount(stdout') = 1
          /\ IsErrorLine(Last(stdout'))
          /\ ~SummaryShown(stdout')
          /\ Len(calls') = CallsThrough(pc)
          /\ (pc = "FetchPoints" =>
                \A k \in 1..Len(calls') :
                    calls'[k].by \notin {"forecast", "process_weather_response"}) ]_vars

C1_PointsFetchFailed ==
    /\ pc = "AwaitInput"
    /\ ~success
    /\ Len(calls) = 2
    /\ calls[2].by = "points"
    /\ ErrorCount(stdout) = 1

(***************************************************************************)
(* C2  The only exception that leaves the loop is the end of input at the  *)
(* prompt.                                                                 *)
(***************************************************************************)
C2_OnlyEndOfInputIsFatal == pc = "Raised" => exc = "EOFError"

(***************************************************************************)
(* C3  When the points response is a JSON text without properties.forecast *)
(* the extraction returns a failure whose message names the missing key:   *)
(* nothing is raised and the loop is back at the prompt.                   *)
(***************************************************************************)
C3_MissingForecastIsReported ==
    (ExtractRan(stdout) /\ IsValidJSON(points_response)
                        /\ ~HoldsForecast(points_response)) =>
        /\ pc = "AwaitInput"
        /\ exc = ""
        /\ ~success
        /\ forecast_url.t = "str"
        /\ \E key \in {"'properties'", "'forecast'"} :
              \E i \in 1..Len(forecast_url.v) :
                  Slice(forecast_url.v, i, Len(key)) = key

(***************************************************************************)
(* C4  As claimed: a URL the planner returns is exactly                    *)
(* https://api.weather.gov/points/<lat>,<lon>.                             *)
(***************************************************************************)
C4_PlannerUrlIsExactlyPointsUrl ==
    pc = "FetchPoints" =>
        /\ api_calls.t = "list"
        /\ Len(api_calls.v) = 1
        /\ IsPointsUrl(api_calls.v[1].v)

(***************************************************************************)
(* C4 as amended: the URL the planner returns is the model's text without  *)
(* the blank characters at its ends, and it starts with                    *)
(* https://api.weather.gov/points/.                                        *)
(***************************************************************************)
C4_PlannerUrlIsTrimmedTextWithPrefix ==
    pc = "FetchPoints" =>
        /\ success /\ reply.success
        /\ api_calls = PyList(<<PyStr(Trimmed(reply.response))>>)
        /\ points_url = Trimmed(reply.response)
        /\ HasPointsPrefix(points_url)

C4_UrlWithTrailingText ==
    /\ pc = "FetchPoints"
    /\ HasPointsPrefix(points_url)
    /\ ~IsPointsUrl(points_url)

(***************************************************************************)
(* C5  As claimed: when the model's text holds no points prefix, the       *)
(* planner fails with a message that holds that text as the model gave it, *)
(* and the iteration ends with an [ERROR] line holding it and no fetch.    *)
(***************************************************************************)
C5_RawTextInMessage ==
    (PlannerRan /\ reply.success /\ ~MentionsPointsPrefix(reply.response)) =>
        /\ ~success
        /\ pc = "AwaitInput"
        /\ Len(calls) = 1
        /\ api_calls.t = "str"
        /\ \E i \in 1..Len(api_calls.v) :
              Slice(api_calls.v, i, Len(reply.response)) = reply.response
        /\ IsErrorLine(Last(stdout))
        /\ \E i \in 1..Len(Last(stdout)) :
              Slice(Last(stdout), i, Len(reply.response)) = reply.response

(***************************************************************************)
(* C5 as amended: when the model's text, without the blank characters at   *)
(* its ends, does not start with the points prefix, the planner fails with *)
(* a message that holds that trimmed text, and the iteration ends with one *)
(* [ERROR] line holding it, the model call being its only external call.   *)
(***************************************************************************)
C5_TrimmedTextInMessage ==
    (PlannerRan /\ reply.success /\ ~HasPointsPrefix(Trimmed(reply.response))) =>
        /\ ~success
        /\ pc = "AwaitInput"
        /\ Len(calls) = 1
        /\ calls[1].fn = "call_claude_sonnet"
        /\ api_calls.t = "str"
        /\ \E i \in 1..Len(api_calls.v) :
              Slice(api_calls.v, i, Len(Trimmed(reply.response)))
                  = Trimmed(reply.response)
        /\ ErrorCount(stdout) = 1
        /\ IsErrorLine(Last(stdout))
        /\ \E i \in 1..Len(Last(stdout)) :
              Slice(Last(stdout), i, Len(Trimmed(reply.response)))
                  = Trimmed(reply.response)

C5_RejectedTextWithBlankEnds ==
    /\ PlannerRan
    /\ reply.success
    /\ ~HasPointsPrefix(Trimmed(reply.response))
    /\ MentionsPointsPrefix(reply.response)
    /\ reply.response # Trimmed(reply.response)
    /\ pc = "AwaitInput"

(***************************************************************************)
(* C6  When the line read is quit, exit or q in any letter case, the       *)
(* function returns after printing the farewell: the step makes no         *)
(* external call, and no step follows the return, so no further line is    *)
(* read.                                                                   *)
(***************************************************************************)
C6_ExitWordEndsLoop ==
    /\ [][ (LineRead /\ IsExitWord(line')) =>
              /\ pc' = "Returned"
              /\ stdout' = <<"Thanks for using the Weather Agent!">>
              /\ calls' = <<>>
              /\ exc' = "" ]_vars
    /\ [][ pc # "Returned" ]_vars

C6_UpperCaseExit == pc = "Returned" /\ line = "EXIT" /\ calls = <<>>

(***************************************************************************)
(* C7  When the line read is empty or blank, one error message is printed, *)
(* no external call is made, and the loop is at the prompt again: it has   *)
(* neither returned nor raised.                                            *)
(***************************************************************************)
C7_BlankLineReprompts ==
    [][ (LineRead /\ IsBlank(line')) =>
          /\ pc' = "AwaitInput"
          /\ exc' = ""
          /\ Len(stdout') = 1
          /\ IsErrorLine(stdout'[1])
          /\ calls' = <<>> ]_vars

C7_BlankLineRejected ==
    /\ pc = "AwaitInput"
    /\ line = "  "
    /\ Len(stdout) = 1
    /\ IsErrorLine(stdout[1])

(***************************************************************************)
(* C8  When the points response is not a JSON text, the extraction returns *)
(* a failure: nothing is raised and the loop is back at the prompt.        *)
(***************************************************************************)
C8_InvalidJsonIsReported ==
    (ExtractRan(stdout) /\ ~IsValidJSON(points_response)) =>
        /\ pc = "AwaitInput"
        /\ exc = ""
        /\ ~success
        /\ forecast_url.t = "str"

(***************************************************************************)
(* C9  The loop moves only forward through AwaitInput, Plan, FetchPoints,  *)
(* ExtractForecastURL, FetchForecast, Summarize, Display, or back to       *)
(* AwaitInput (or it ends); a step never follows itself.  The external     *)
(* calls of an iteration are, in this order and each at most once: the     *)
(* planner's model call, the points fetch, the forecast fetch, the summary *)
(* model call; and a step is reached with exactly the calls before it.     *)
(***************************************************************************)
C9_StepsInOrderOncePerIteration ==
    /\ [][ \/ <<pc, pc'>> \in Forward
           \/ pc \in Steps \cup {"AwaitInput"} /\ pc' = "AwaitInput"
           \/ pc = "AwaitInput" /\ pc' \in {"Returned", "Raised"}
           \/ pc = "ExtractForecastURL" /\ pc' = "Raised" ]_vars
    /\ [](/\ Len(calls) <= 4
          /\ \A k \in 1..Len(calls) :
                calls[k].fn = CallOrder[k].fn /\ calls[k].by = CallOrder[k].by
          /\ (pc \in Steps => Len(calls) = CallsThrough(pc)
                                  - (IF pc = "ExtractForecastURL" THEN 0 ELSE 1))
          /\ (pc = "Display" => Len(calls) = 4))

C9_FullIteration ==
    /\ pc = "Display"
    /\ Len(calls) = 4
    /\ calls[1].fn = "call_claude_sonnet"
    /\ calls[4].fn = "call_claude_sonnet"

(***************************************************************************)
(* C10  A summary is shown only at the end of an iteration in which every  *)
(* step succeeded, and then: the first fetch was of the URL the planner    *)
(* returned, the second fetch was of the text that properties.forecast     *)
(* holds in the points response of this iteration, the summary model call  *)
(* got this iteration's forecast response and location, the text shown is  *)
(* the model's text as it was returned, and the loop is at the prompt.     *)
(* An iteration in which the summary step succeeds shows the summary.      *)
(***************************************************************************)
C10_SuccessfulIterationShowsSummary ==
    /\ [](SummaryShown(stdout) =>
            /\ pc = "AwaitInput"
            /\ success /\ reply.success
            /\ Len(calls) = 4
            /\ calls[1].args = <<location>>
            /\ api_calls.t = "list"
            /\ calls[2].args = <<api_calls.v[1]>>
            /\ HoldsForecast(points_response)
            /\ calls[3].args = <<ForecastIn(points_response)>>
            /\ calls[3].args[1].t = "str"
            /\ calls[4].args = <<forecast_response, location>>
            /\ Len(stdout) >= 5
            /\ stdout[Len(stdout) - 4] = SummaryHeader
            /\ stdout[Len(stdout) - 2] = reply.response)
    /\ [][ (pc = "Summarize" /\ success') => pc' = "Display" ]_vars
    /\ [][ pc = "Display" => (pc' = "AwaitInput" /\ SummaryShown(stdout')) ]_vars

C10_SummaryWithBlankEndsShown ==
    /\ pc = "AwaitInput"
    /\ SummaryShown(stdout)
    /\ reply.response # Trimmed(reply.response)
    /\ stdout[Len(stdout) - 2] = reply.response

====
